---- MODULE Spec2Model ----
(***************************************************************************)
(* A model of iodata/fchk.py: the FCHKFile field scanner (one action per   *)
(* read_field call) and load, the assembly of the result dictionary from   *)
(* the scanned fields.                                                     *)
(*                                                                         *)
(* Representation.  A line of the file is a record                         *)
(*   [label |-> line[:43].strip(), head |-> line[:43].split(),             *)
(*    words |-> line[43:].split()]                                         *)
(* so that line.split() is head \o words.  Tokens are strings.  A value of *)
(* the field dictionary is [dtype, shape, data]: dtype "int" or "float",   *)
(* shape "scalar" or "array", data the sequence of elements.  A float is   *)
(* kept in tenths (1.5 is 15, 1.0 is 10), an int as itself.  An optional   *)
(* value (None or x) is the sequence <<>> or <<x>>.                        *)
(***************************************************************************)
EXTENDS Integers, Sequences, FiniteSets, TLC

VARIABLES
    file,          \* the lines after the two header lines
    hdr,           \* the number of words on the second line of the file
    wantedArg,     \* FCHKFile.__init__'s field_labels argument (optional)
    pos,           \* the number of lines of `file` read so far
    field_labels,  \* _read's working set of labels still wanted (optional)
    store,         \* the dictionary FCHKFile is: label -> value
    attrs,         \* the attributes set on the FCHKFile object
    status,        \* "new", "scanning", "done", or the exception raised
    result         \* load's outcome: <<>> before, then <<dictionary or error>>

vars == <<file, hdr, wantedArg, pos, field_labels, store, attrs, status, result>>

scanVars == <<file, hdr, wantedArg, pos, field_labels, store, attrs, status>>

----------------------------------------------------------------------------
(* Bounds of the model *)

MaxLines == 3

----------------------------------------------------------------------------
(* Python values *)

None == <<>>

Some(x) == <<x>>

EmptyDict == [k \in {} |-> 0]

\* d[k] = v of a Python dict
DictSet(d, k, v) == [x \in (DOMAIN d) \cup {k} |-> IF x = k THEN v ELSE d[x]]

\* dict.pop(k) on a dict that has k
DictDel(d, k) == [x \in (DOMAIN d) \ {k} |-> d[x]]

Min(a, b) == IF a < b THEN a ELSE b

\* a[b:e] of a sequence, 0 <= b, with Python's clipping to the length
Slice(a, b, e) == SubSeq(a, b + 1, Min(e, Len(a)))

RECURSIVE Sum(_)
Sum(s) == IF s = <<>> THEN 0 ELSE Head(s) + Sum(Tail(s))

RECURSIVE Concat(_)
Concat(ss) == IF ss = <<>> THEN <<>> ELSE Head(ss) \o Concat(Tail(ss))

----------------------------------------------------------------------------
(* Tokens and their conversion by int() and float() *)

IntTokens == {"0", "1", "2", "3"}

FloatTokens == IntTokens \cup {"1.5"}

IntOf(tok) == CASE tok = "0" -> 0 [] tok = "1" -> 1 [] tok = "2" -> 2 [] tok = "3" -> 3

\* float(tok), in tenths
FloatOf(tok) == IF tok \in IntTokens THEN 10 * IntOf(tok) ELSE 15

\* whether datatype(tok) succeeds (otherwise it raises ValueError)
Convertible(datatype, tok) ==
    IF datatype = "int" THEN tok \in IntTokens ELSE tok \in FloatTokens

Convert(datatype, tok) == IF datatype = "int" THEN IntOf(tok) ELSE FloatOf(tok)

\* np.zeros(length, datatype)
Zeros(length) == [i \in 1..length |-> 0]

----------------------------------------------------------------------------
(* FCHKFile._read.read_field *)

\* What one call leaves behind: ret is "True", "False" or the exception.
Outcome(ret, p, fl, st) == [ret |-> ret, pos |-> p, field_labels |-> fl, store |-> st]

\* The for loop over the words of one line of an array (lines 107-113).
\* Yields [err, value, counter]; err is "" when the loop ends normally.
RECURSIVE FillWords(_, _, _, _, _)
FillWords(ws, datatype, value, counter, length) ==
    IF ws = <<>> THEN [err |-> "", value |-> value, counter |-> counter]
    ELSE IF ~Convertible(datatype, Head(ws))
         THEN [err |-> "IOError", value |-> value, counter |-> counter]
    ELSE IF counter >= length
         THEN [err |-> "IndexError", value |-> value, counter |-> counter]
    ELSE FillWords(Tail(ws), datatype,
                   [value EXCEPT ![counter + 1] = Convert(datatype, Head(ws))],
                   counter + 1, length)

\* The while loop that fills an array (lines 103-113), then lines 120-121.
RECURSIVE FillArray(_, _, _, _, _, _, _, _)
FillArray(p, fl, st, label, datatype, value, counter, length) ==
    IF counter >= length
    THEN Outcome("True", p, fl,
                 DictSet(st, label,
                         [dtype |-> datatype, shape |-> "array", data |-> value]))
    ELSE IF p >= Len(file) THEN Outcome("IOError", p, fl, st)
    ELSE LET line == file[p + 1]
             r == FillWords(line.head \o line.words, datatype, value, counter, length)
         IN  IF r.err # "" THEN Outcome(r.err, p + 1, fl, st)
             ELSE FillArray(p + 1, fl, st, label, datatype, r.value, r.counter, length)

\* Lines 90-121: the value of a field whose header gave a datatype.
ReadValue(p, fl, st, label, datatype, words) ==
    IF Len(words) = 2
    THEN IF Convertible(datatype, words[2])
         THEN Outcome("True", p, fl,
                      DictSet(st, label,
                              [dtype |-> datatype, shape |-> "scalar",
                               data |-> <<Convert(datatype, words[2])>>]))
         ELSE Outcome("True", p, fl, st)
    ELSE IF Len(words) = 3
    THEN IF words[2] # "N=" THEN Outcome("IOError", p, fl, st)
         ELSE IF words[3] \notin IntTokens THEN Outcome("ValueError", p, fl, st)
         ELSE FillArray(p, fl, st, label, datatype,
                        Zeros(IntOf(words[3])), 0, IntOf(words[3]))
    ELSE Outcome("IOError", p, fl, st)

\* The filter of lines 73-79 on a header line's label, given the working set:
\* "stop" (return False), "skip" (return True) or "take".
FilterMissStop(fl, label) ==
    IF fl = None THEN "take"
    ELSE IF label \notin fl[1] THEN "skip"
    ELSE "take"

Filter(fl, label) ==
    IF fl = None THEN "take"
    ELSE IF fl[1] = {} THEN "stop"
    ELSE IF label \notin fl[1] THEN "skip"
    ELSE "take"

\* field_labels.discard(label), line 79
DiscardKeep(fl, label) == fl

Discard(fl, label) == IF fl = None THEN None ELSE Some(fl[1] \ {label})

\* Lines 65-121: one call of read_field with the stream at line p.
RECURSIVE read_field(_, _, _)
read_field(p, fl, st) ==
    IF p >= Len(file) THEN Outcome("False", p, fl, st)
    ELSE LET line == file[p + 1]
             label == line.label
             what == Filter(fl, label)
             fl1 == Discard(fl, label)
             words == line.words
         IN  IF what = "stop" THEN Outcome("False", p + 1, fl, st)
             ELSE IF what = "skip" THEN Outcome("True", p + 1, fl, st)
             ELSE IF Len(words) = 0 THEN Outcome("True", p + 1, fl1, st)
             ELSE IF words[1] = "I"
                  THEN ReadValue(p + 1, fl1, st, label, "int", words)
             ELSE IF words[1] = "R"
                  THEN ReadValue(p + 1, fl1, st, label, "float", words)
             ELSE read_field(p + 1, fl1, st)

----------------------------------------------------------------------------
(* FCHKFile.__init__ and the frame of _read *)

\* set(field_labels) of line 57: None is not iterable
InitLabelsNoneOk(arg) == [err |-> "", labels |-> arg]

InitLabels(arg) ==
    IF arg = None THEN [err |-> "TypeError", labels |-> None]
    ELSE [err |-> "", labels |-> arg]

\* __init__ up to the first read_field: the dict is emptied, the wanted labels
\* become the working set, and the two header lines are read.
Open ==
    /\ status = "new"
    /\ LET i == InitLabels(wantedArg)
       IN  IF i.err # ""
           THEN /\ status' = i.err
                /\ attrs' = {"filename"}
                /\ UNCHANGED field_labels
           ELSE /\ field_labels' = i.labels
                /\ IF hdr = 3
                   THEN attrs' = {"filename", "title", "command", "lot", "obasis"} /\ status' = "scanning"
                   ELSE IF hdr = 2
                   THEN attrs' = {"filename", "title", "command", "lot"} /\ status' = "scanning"
                   ELSE attrs' = {"filename", "title"} /\ status' = "IOError"
    /\ store' = EmptyDict
    /\ UNCHANGED <<file, hdr, wantedArg, pos, result>>

\* One iteration of `while read_field(f): pass`; the file is closed on False
\* and on an exception.
ReadField ==
    /\ status = "scanning"
    /\ LET r == read_field(pos, field_labels, store)
       IN  /\ pos' = r.pos
           /\ field_labels' = r.field_labels
           /\ store' = r.store
           /\ status' = IF r.ret = "True" THEN "scanning"
                        ELSE IF r.ret = "False" THEN "done"
                        ELSE r.ret
    /\ UNCHANGED <<file, hdr, wantedArg, attrs, result>>

----------------------------------------------------------------------------
(* The files the scanner is run on *)

Hdr(label, words) == [label |-> label, head |-> <<label>>, words |-> words]

Dat(toks) == [label |-> "#", head |-> toks, words |-> <<>>]

LineSet ==
    { Hdr("A", <<"I", "1">>),
      Hdr("A", <<"I", "2">>),
      Hdr("A", <<"R", "N=", "2">>),
      Hdr("A", <<"I", "N", "1">>),
      Hdr("B", <<"R", "1.5">>),
      Hdr("B", <<"I", "1.5">>),
      Hdr("B", <<"I", "N=", "1">>),
      Hdr("B", <<"C", "N=", "1">>),
      Hdr("B", <<>>),
      Dat(<<"1">>),
      Dat(<<"2", "1.5">>),
      Dat(<<"x">>) }

Files == UNION {[1..n -> LineSet] : n \in 0..MaxLines}

WantedArgs == {None} \cup {Some(W) : W \in SUBSET {"A", "B"}}

HeaderWordCounts == {1, 2, 3}

InitScan ==
    /\ file \in Files
    /\ hdr \in HeaderWordCounts
    /\ wantedArg \in WantedArgs
    /\ pos = 0
    /\ field_labels = None
    /\ store = EmptyDict
    /\ attrs = {}
    /\ status = "new"
    /\ result = None

NextScan == Open \/ ReadField

SpecScan == InitScan /\ [][NextScan]_vars


----------------------------------------------------------------------------
(* numpy operations used by load *)

\* the elements of a field as floats (in tenths)
Floats(v) == IF v.dtype = "int" THEN [j \in 1..Len(v.data) |-> 10 * v.data[j]] ELSE v.data

\* a[mask] with a boolean mask
RECURSIVE Masked(_, _)
Masked(a, mask) ==
    IF a = <<>> THEN <<>>
    ELSE (IF Head(mask) THEN <<Head(a)>> ELSE <<>>) \o Masked(Tail(a), Tail(mask))

\* a.reshape(r, c) of a flat a with r * c elements
Reshape(a, r, c) == [i \in 1..r |-> [j \in 1..c |-> a[(i - 1) * c + j]]]

\* m.T of an r x c matrix
Transpose(m, r, c) == [j \in 1..c |-> [i \in 1..r |-> m[i][j]]]

\* np.zeros((n, n))
ZeroMatrix(n) == [i \in 1..n |-> [j \in 1..n |-> 0]]

\* m[irow, :irow + 1] = v; m[:irow + 1, irow] = v   (irow counted from 0)
SetRowOnly(m, n, irow, v) ==
    [r \in 1..n |-> [c \in 1..n |->
        IF r = irow + 1 /\ c <= irow + 1 THEN v[c] ELSE m[r][c]]]

SetRowAndColumn(m, n, irow, v) ==
    [r \in 1..n |-> [c \in 1..n |->
        IF r = irow + 1 /\ c <= irow + 1 THEN v[c]
        ELSE IF c = irow + 1 /\ r <= irow + 1 THEN v[r]
        ELSE m[r][c]]]

\* Assignment of src to a slice of k elements: the same length, or one
\* element broadcast to all; anything else is numpy's ValueError.
Assignable(src, k) == Len(src) = k \/ Len(src) = 1

Broadcast(src, k) == IF Len(src) = k THEN src ELSE [j \in 1..k |-> src[1]]

\* The loop shared by _triangle_to_dense (lines 154-159) and load_dm (lines
\* 302-307): row irow takes the next irow + 1 elements of the flat array.
RECURSIVE FillTriangle(_, _, _, _, _)
FillTriangle(flat, n, irow, begin, m) ==
    IF irow >= n THEN [err |-> "", value |-> m]
    ELSE LET end == begin + irow + 1
             src == Slice(flat, begin, end)
         IN  IF ~Assignable(src, irow + 1) THEN [err |-> "ValueError", value |-> m]
             ELSE FillTriangle(flat, n, irow + 1, end,
                               SetRowAndColumn(m, n, irow, Broadcast(src, irow + 1)))

\* int(np.round((np.sqrt(1 + 8 * len(triangle)) - 1) / 2)): the integer nearest
\* to x = (sqrt(1 + 8 L) - 1) / 2, i.e. 2 n <= sqrt(1 + 8 L) < 2 n + 2 (x is
\* never halfway between two integers, 1 + 8 L being odd)
NRow(L) == CHOOSE n \in 0..(L + 1) : 4 * n * n <= 1 + 8 * L /\ 1 + 8 * L < 4 * (n + 1) * (n + 1)

\* _triangle_to_dense, lines 137-160
TriangleToDense(triangle) ==
    FillTriangle(triangle, NRow(Len(triangle)), 0, 0, ZeroMatrix(NRow(Len(triangle))))

----------------------------------------------------------------------------
(* load: the stages of lines 203-379, each yielding an err ("" when the    *)
(* stage passes) and what it computed.                                     *)

Has(fchk, label) == label \in DOMAIN fchk

\* fchk.get(label) of a scalar field
GetScalar(fchk, label) == IF Has(fchk, label) THEN Some(fchk[label].data[1]) ELSE None

\* A) lines 203-212
Geometry(fchk) ==
    IF ~(/\ Has(fchk, "Atomic numbers")
         /\ Has(fchk, "Current cartesian coordinates")
         /\ Has(fchk, "Nuclear charges"))
    THEN [err |-> "KeyError"]
    ELSE LET numbers == fchk["Atomic numbers"].data
             flat == fchk["Current cartesian coordinates"].data
             pseudo_numbers == fchk["Nuclear charges"].data
             mask == [j \in 1..Len(pseudo_numbers) |-> pseudo_numbers[j] # 0]
         IN  IF Len(flat) % 3 # 0 THEN [err |-> "ValueError"]
             ELSE IF Len(numbers) # Len(mask) \/ Len(flat) \div 3 # Len(mask)
             THEN [err |-> "IndexError"]
             ELSE [err |-> "",
                   coordinates |-> Reshape(flat, Len(flat) \div 3, 3),
                   mask |-> mask,
                   numbers |-> Masked(numbers, mask),
                   system_coordinates |-> Masked(Reshape(flat, Len(flat) \div 3, 3), mask),
                   pseudo_numbers |-> Masked(pseudo_numbers, mask)]

\* the lists built by the loop of lines 222-247
NoShells ==
    [err |-> "", my_shell_types |-> <<>>, my_shell_map |-> <<>>, my_nprims |-> <<>>,
     my_alphas |-> <<>>, con_coeffs |-> <<>>]

\* lines 231-240: an SP shell is appended as an S and a P shell
AppendSPAsOne(acc, atom, n, alphas, cc1, cc2) ==
    [err |-> "",
     my_shell_types |-> acc.my_shell_types \o <<0 - 1>>,
     my_shell_map |-> acc.my_shell_map \o <<atom>>,
     my_nprims |-> acc.my_nprims \o <<n>>,
     my_alphas |-> acc.my_alphas \o <<alphas>>,
     con_coeffs |-> acc.con_coeffs \o <<cc1>>]

AppendSP(acc, atom, n, alphas, cc1, cc2) ==
    [err |-> "",
     my_shell_types |-> acc.my_shell_types \o <<0, 1>>,
     my_shell_map |-> acc.my_shell_map \o <<atom, atom>>,
     my_nprims |-> acc.my_nprims \o <<n, n>>,
     my_alphas |-> acc.my_alphas \o <<alphas, alphas>>,
     con_coeffs |-> acc.con_coeffs \o <<cc1, cc2>>]

\* lines 242-246
AppendShell(acc, type, atom, n, alphas, cc1) ==
    [err |-> "",
     my_shell_types |-> acc.my_shell_types \o <<type>>,
     my_shell_map |-> acc.my_shell_map \o <<atom>>,
     my_nprims |-> acc.my_nprims \o <<n>>,
     my_alphas |-> acc.my_alphas \o <<alphas>>,
     con_coeffs |-> acc.con_coeffs \o <<cc1>>]

\* lines 228-247: the loop over the raw shells, from shell i (counted from 0)
RECURSIVE ShellLoop(_, _, _, _)
ShellLoop(fchk, i, counter, acc) ==
    LET shell_types == fchk["Shell types"].data
        shell_map == fchk["Shell to atom map"].data
        nprims == fchk["Number of primitives per shell"].data
        alphas == Floats(fchk["Primitive exponents"])
        ccoeffs_level1 == Floats(fchk["Contraction coefficients"])
    IN  IF i >= Len(nprims) THEN acc
        ELSE IF i >= Len(shell_types) \/ i >= Len(shell_map) THEN [err |-> "IndexError"]
        ELSE LET n == nprims[i + 1]
                 atom == shell_map[i + 1] - 1
             IN  IF shell_types[i + 1] = 0 - 1
                 THEN IF ~Has(fchk, "P(S=P) Contraction coefficients")
                      THEN [err |-> "TypeError"]
                      ELSE ShellLoop(fchk, i + 1, counter + n,
                               AppendSP(acc, atom, n,
                                   Slice(alphas, counter, counter + n),
                                   Slice(ccoeffs_level1, counter, counter + n),
                                   Slice(Floats(fchk["P(S=P) Contraction coefficients"]),
                                         counter, counter + n)))
                 ELSE ShellLoop(fchk, i + 1, counter + n,
                          AppendShell(acc, shell_types[i + 1], atom, n,
                              Slice(alphas, counter, counter + n),
                              Slice(ccoeffs_level1, counter, counter + n)))

\* B) lines 214-259
Basis(fchk, coordinates) ==
    IF ~(/\ Has(fchk, "Shell types")
         /\ Has(fchk, "Shell to atom map")
         /\ Has(fchk, "Number of primitives per shell")
         /\ Has(fchk, "Primitive exponents")
         /\ Has(fchk, "Contraction coefficients"))
    THEN [err |-> "KeyError"]
    ELSE LET r == ShellLoop(fchk, 0, 0, NoShells)
         IN  IF r.err # "" THEN [err |-> r.err]
             ELSE IF r.my_alphas = <<>> THEN [err |-> "ValueError"]
             ELSE [err |-> "",
                   obasis |-> [centers |-> coordinates,
                               shell_map |-> r.my_shell_map,
                               nprims |-> r.my_nprims,
                               shell_types |-> r.my_shell_types,
                               alphas |-> Concat(r.my_alphas),
                               con_coeffs |-> Concat(r.con_coeffs)]]

\* np.arange(n) and np.arange(n)[::-1]
Arange(n) == [j \in 1..n |-> j - 1]

ArangeReversed(n) == [j \in 1..n |-> n - j]

\* lines 262-281
PermutationTypes == ((0 - 9)..(0 - 2)) \cup (0..9)

\* (the table with a repeated index in the block of type 3)
permutation_rules_repeated(shell_type) ==
    CASE shell_type = 0 - 9 -> Arange(19)
      [] shell_type = 0 - 8 -> Arange(17)
      [] shell_type = 0 - 7 -> Arange(15)
      [] shell_type = 0 - 6 -> Arange(13)
      [] shell_type = 0 - 5 -> Arange(11)
      [] shell_type = 0 - 4 -> Arange(9)
      [] shell_type = 0 - 3 -> Arange(7)
      [] shell_type = 0 - 2 -> Arange(5)
      [] shell_type = 0 -> <<0>>
      [] shell_type = 1 -> Arange(3)
      [] shell_type = 2 -> <<0, 3, 4, 1, 5, 2>>
      [] shell_type = 3 -> <<0, 4, 5, 3, 9, 6, 1, 8, 7, 1>>
      [] shell_type = 4 -> ArangeReversed(15)
      [] shell_type = 5 -> ArangeReversed(21)
      [] shell_type = 6 -> ArangeReversed(28)
      [] shell_type = 7 -> ArangeReversed(36)
      [] shell_type = 8 -> ArangeReversed(45)
      [] shell_type = 9 -> ArangeReversed(55)

permutation_rules(shell_type) ==
    CASE shell_type = 0 - 9 -> Arange(19)
      [] shell_type = 0 - 8 -> Arange(17)
      [] shell_type = 0 - 7 -> Arange(15)
      [] shell_type = 0 - 6 -> Arange(13)
      [] shell_type = 0 - 5 -> Arange(11)
      [] shell_type = 0 - 4 -> Arange(9)
      [] shell_type = 0 - 3 -> Arange(7)
      [] shell_type = 0 - 2 -> Arange(5)
      [] shell_type = 0 -> <<0>>
      [] shell_type = 1 -> Arange(3)
      [] shell_type = 2 -> <<0, 3, 4, 1, 5, 2>>
      [] shell_type = 3 -> <<0, 4, 5, 3, 9, 6, 1, 8, 7, 2>>
      [] shell_type = 4 -> ArangeReversed(15)
      [] shell_type = 5 -> ArangeReversed(21)
      [] shell_type = 6 -> ArangeReversed(28)
      [] shell_type = 7 -> ArangeReversed(36)
      [] shell_type = 8 -> ArangeReversed(45)
      [] shell_type = 9 -> ArangeReversed(55)

\* lines 282-285: permutation.extend(permutation_rules[shell_type] + len(permutation))
RECURSIVE Permutation(_, _)
Permutation(my_shell_types, permutation) ==
    IF my_shell_types = <<>> THEN [err |-> "", value |-> permutation]
    ELSE IF Head(my_shell_types) \notin PermutationTypes THEN [err |-> "KeyError", value |-> <<>>]
    ELSE LET rule == permutation_rules(Head(my_shell_types))
         IN  Permutation(Tail(my_shell_types),
                         permutation \o [j \in 1..Len(rule) |-> rule[j] + Len(permutation)])

\* load_dm, lines 299-308: None when the field is absent
load_dm(fchk, nbasis, label) ==
    IF ~Has(fchk, label) THEN [err |-> "", value |-> None]
    ELSE IF nbasis = None THEN [err |-> "TypeError", value |-> None]
    ELSE LET r == FillTriangle(Floats(fchk[label]), nbasis[1], 0, 0, ZeroMatrix(nbasis[1]))
         IN  [err |-> r.err, value |-> Some(r.value)]

Methods == <<"MP2", "MP3", "CC", "CI", "SCF">>

TotalLabel(key) ==
    CASE key = "MP2" -> "Total MP2 Density" [] key = "MP3" -> "Total MP3 Density"
      [] key = "CC" -> "Total CC Density" [] key = "CI" -> "Total CI Density"
      [] key = "SCF" -> "Total SCF Density"

SpinLabel(key) ==
    CASE key = "MP2" -> "Spin MP2 Density" [] key = "MP3" -> "Spin MP3 Density"
      [] key = "CC" -> "Spin CC Density" [] key = "CI" -> "Spin CI Density"
      [] key = "SCF" -> "Spin SCF Density"

FullKey(key) ==
    CASE key = "MP2" -> "dm_full_mp2" [] key = "MP3" -> "dm_full_mp3"
      [] key = "CC" -> "dm_full_cc" [] key = "CI" -> "dm_full_ci"
      [] key = "SCF" -> "dm_full_scf"

SpinKey(key) ==
    CASE key = "MP2" -> "dm_spin_mp2" [] key = "MP3" -> "dm_spin_mp3"
      [] key = "CC" -> "dm_spin_cc" [] key = "CI" -> "dm_spin_ci"
      [] key = "SCF" -> "dm_spin_scf"

\* C) lines 311-317, from method k of Methods on
RECURSIVE Densities(_, _, _, _)
Densities(fchk, nbasis, k, out) ==
    IF k > Len(Methods) THEN [err |-> "", out |-> out]
    ELSE LET key == Methods[k]
             dm_full == load_dm(fchk, nbasis, TotalLabel(key))
             out1 == IF dm_full.value # None
                     THEN DictSet(out, FullKey(key), dm_full.value[1]) ELSE out
             dm_spin == load_dm(fchk, nbasis, SpinLabel(key))
             out2 == IF dm_spin.value # None
                     THEN DictSet(out1, SpinKey(key), dm_spin.value[1]) ELSE out1
         IN  IF dm_full.err # "" THEN [err |-> dm_full.err, out |-> out]
             ELSE IF dm_spin.err # "" THEN [err |-> dm_spin.err, out |-> out1]
             ELSE Densities(fchk, nbasis, k + 1, out2)

\* Python's `a or b` on optional integers: a unless it is None or 0
Or(a, b) == IF a # None /\ a[1] # 0 THEN a ELSE b

\* lines 321-324
IndepPreferCorrectSpelling(fchk, nbasis) ==
    IF Has(fchk, "Number of independent functions")
    THEN GetScalar(fchk, "Number of independent functions")
    ELSE IF Has(fchk, "Number of independant functions")
    THEN GetScalar(fchk, "Number of independant functions")
    ELSE nbasis

IndependentFunctions(fchk, nbasis) ==
    LET nbasis_indep == Or(GetScalar(fchk, "Number of independant functions"),
                           GetScalar(fchk, "Number of independent functions"))
    IN  IF nbasis_indep = None THEN nbasis ELSE nbasis_indep

\* aoccs = np.zeros(n); aoccs[:nocc] = 1.0   (lines 335-336, 344-345, 353-354)
Occupations(n, nocc) == [j \in 1..n |-> IF j <= nocc THEN 10 ELSE 0]

\* fchk[label].reshape(nbasis_indep, nbasis).T
Coefficients(fchk, label, nbasis, nbasis_indep) ==
    IF ~Has(fchk, label) THEN [err |-> "KeyError"]
    ELSE IF nbasis = None \/ nbasis_indep = None THEN [err |-> "TypeError"]
    ELSE IF Len(fchk[label].data) # nbasis_indep[1] * nbasis[1] THEN [err |-> "ValueError"]
    ELSE [err |-> "",
          value |-> Transpose(Reshape(Floats(fchk[label]), nbasis_indep[1], nbasis[1]),
                              nbasis_indep[1], nbasis[1])]

\* lines 338-358: the three cases of the beta orbitals
BetaCase(fchk) ==
    IF Has(fchk, "Beta Orbital Energies") THEN "UHF"
    ELSE IF fchk["Number of beta electrons"].data[1] # fchk["Number of alpha electrons"].data[1]
    THEN "ROHF"
    ELSE "closed"

\* result.pop('dm_full_scf'), line 358
Pop(out, key) == IF key \in DOMAIN out THEN [err |-> "", out |-> DictDel(out, key)]
                 ELSE [err |-> "KeyError", out |-> out]

Beta(fchk, nbasis, nbasis_indep, out) ==
    LET nbeta == fchk["Number of beta electrons"].data[1]
        which == BetaCase(fchk)
    IN  IF which = "UHF"
        THEN LET c == Coefficients(fchk, "Beta MO coefficients", nbasis, nbasis_indep)
             IN  IF c.err # "" THEN [err |-> c.err, out |-> out]
                 ELSE [err |-> "",
                       out |-> DictSet(DictSet(DictSet(DictSet(out,
                                  "orb_beta", <<nbasis, nbasis_indep>>),
                                  "orb_beta_coeffs", c.value),
                                  "orb_beta_energies", Floats(fchk["Beta Orbital Energies"])),
                                  "orb_beta_occs", Occupations(nbasis_indep[1], nbeta))]
        ELSE IF which = "ROHF"
        THEN LET c == Coefficients(fchk, "Alpha MO coefficients", nbasis, nbasis_indep)
             IN  Pop(DictSet(DictSet(DictSet(DictSet(out,
                        "orb_beta", <<nbasis, nbasis_indep>>),
                        "orb_beta_coeffs", c.value),
                        "orb_beta_energies", Floats(fchk["Alpha Orbital Energies"])),
                        "orb_beta_occs", Occupations(nbasis_indep[1], nbeta)),
                     "dm_full_scf")
        ELSE [err |-> "", out |-> out]

\* D) lines 319-358
Wavefunction(fchk, nbasis, out) ==
    LET nbasis_indep == IndependentFunctions(fchk, nbasis)
    IN  IF ~(Has(fchk, "Number of alpha electrons") /\ Has(fchk, "Number of beta electrons"))
        THEN [err |-> "KeyError", out |-> out]
        ELSE LET nalpha == fchk["Number of alpha electrons"].data[1]
                 nbeta == fchk["Number of beta electrons"].data[1]
                 c == Coefficients(fchk, "Alpha MO coefficients", nbasis, nbasis_indep)
             IN  IF nalpha < 0 \/ nbeta < 0 \/ nalpha + nbeta <= 0
                 THEN [err |-> "ValueError", out |-> out]
                 ELSE IF c.err # "" THEN [err |-> c.err, out |-> out]
                 ELSE IF ~Has(fchk, "Alpha Orbital Energies") THEN [err |-> "KeyError", out |-> out]
                 ELSE Beta(fchk, nbasis, nbasis_indep,
                           DictSet(DictSet(DictSet(DictSet(out,
                              "orb_alpha", <<nbasis, nbasis_indep>>),
                              "orb_alpha_coeffs", c.value),
                              "orb_alpha_energies", Floats(fchk["Alpha Orbital Energies"])),
                              "orb_alpha_occs", Occupations(nbasis_indep[1], nalpha)))

\* fchk['Quadrupole Moment'][[0, 3, 4, 1, 5, 2]], line 368
Reordered(q) == <<q[1], q[4], q[5], q[2], q[6], q[3]>>

\* E) lines 360-368
Properties(fchk, out) ==
    IF ~Has(fchk, "Total Energy") THEN [err |-> "KeyError", out |-> out]
    ELSE LET out1 == DictSet(out, "energy", fchk["Total Energy"].data[1])
             polar == IF Has(fchk, "Polarizability")
                      THEN TriangleToDense(Floats(fchk["Polarizability"]))
                      ELSE [err |-> "", value |-> <<>>]
             out2 == IF Has(fchk, "Polarizability")
                     THEN DictSet(out1, "polar", polar.value) ELSE out1
             out3 == IF Has(fchk, "Dipole Moment")
                     THEN DictSet(out2, "dipole_moment", fchk["Dipole Moment"].data) ELSE out2
         IN  IF polar.err # "" THEN [err |-> polar.err, out |-> out1]
             ELSE IF ~Has(fchk, "Quadrupole Moment") THEN [err |-> "", out |-> out3]
             ELSE IF Len(fchk["Quadrupole Moment"].data) < 6
             THEN [err |-> "IndexError", out |-> out3]
             ELSE [err |-> "",
                   out |-> DictSet(out3, "quadrupole_moment",
                                   Reordered(fchk["Quadrupole Moment"].data))]

ChargeLabels == <<"Mulliken Charges", "ESP Charges", "NPA Charges">>

ChargeKey(label) ==
    CASE label = "Mulliken Charges" -> "mulliken_charges"
      [] label = "ESP Charges" -> "esp_charges"
      [] label = "NPA Charges" -> "npa_charges"

\* F) lines 370-377, from charge k of ChargeLabels on
RECURSIVE Charges(_, _, _, _)
Charges(fchk, mask, k, out) ==
    IF k > Len(ChargeLabels) THEN [err |-> "", out |-> out]
    ELSE IF ~Has(fchk, ChargeLabels[k]) THEN Charges(fchk, mask, k + 1, out)
    ELSE IF Len(fchk[ChargeLabels[k]].data) # Len(mask) THEN [err |-> "IndexError", out |-> out]
    ELSE Charges(fchk, mask, k + 1,
                 DictSet(out, ChargeKey(ChargeLabels[k]),
                         Masked(fchk[ChargeLabels[k]].data, mask)))

Failed(err) == [err |-> err, out |-> EmptyDict]

\* load, lines 203-379, on the fields that FCHKFile has read
LoadResult(fchk) ==
    LET g == Geometry(fchk)
    IN  IF g.err # "" THEN Failed(g.err)
    ELSE LET b == Basis(fchk, g.coordinates)
    IN  IF b.err # "" THEN Failed(b.err)
    ELSE LET p == Permutation(b.obasis.shell_types, <<>>)
    IN  IF p.err # "" THEN Failed(p.err)
    ELSE LET nbasis == GetScalar(fchk, "Number of basis functions")
             out0 == [k \in {"title", "coordinates", "numbers", "obasis",
                             "permutation", "pseudo_numbers"} |->
                        CASE k = "title" -> "title"
                          [] k = "coordinates" -> g.system_coordinates
                          [] k = "numbers" -> g.numbers
                          [] k = "obasis" -> b.obasis
                          [] k = "permutation" -> p.value
                          [] k = "pseudo_numbers" -> g.pseudo_numbers]
             d == Densities(fchk, nbasis, 1, out0)
    IN  IF d.err # "" THEN Failed(d.err)
    ELSE LET w == Wavefunction(fchk, nbasis, d.out)
    IN  IF w.err # "" THEN Failed(w.err)
    ELSE LET e == Properties(fchk, w.out)
    IN  IF e.err # "" THEN Failed(e.err)
    ELSE LET c == Charges(fchk, g.mask, 1, e.out)
    IN  IF c.err # "" THEN Failed(c.err) ELSE c

\* load once the file has been scanned
Load ==
    /\ status = "done"
    /\ result = None
    /\ result' = Some(LoadResult(store))
    /\ UNCHANGED scanVars


----------------------------------------------------------------------------
(* The field dictionaries load is run on.  In the specifications of load   *)
(* the scan is over (status "done", the stream closed) and store holds     *)
(* what it read; the lines themselves are not kept.                        *)

MaxShells == 2

MaxElectrons == 2

MaxFunctions == 2

MaxDim == 3

IntScalar(x) == [dtype |-> "int", shape |-> "scalar", data |-> <<x>>]

FloatScalar(x) == [dtype |-> "float", shape |-> "scalar", data |-> <<x>>]

IntArray(a) == [dtype |-> "int", shape |-> "array", data |-> a]

FloatArray(a) == [dtype |-> "float", shape |-> "array", data |-> a]

\* n distinct floats
Ramp(base, n) == [j \in 1..n |-> base + j]

\* the labels load asks FCHKFile for, lines 182-201
LoadLabels ==
    {"Number of electrons", "Number of basis functions",
     "Number of independant functions", "Number of independent functions",
     "Number of alpha electrons", "Number of beta electrons",
     "Atomic numbers", "Current cartesian coordinates",
     "Shell types", "Shell to atom map",
     "Number of primitives per shell", "Primitive exponents",
     "Contraction coefficients", "P(S=P) Contraction coefficients",
     "Alpha Orbital Energies", "Alpha MO coefficients",
     "Beta Orbital Energies", "Beta MO coefficients",
     "Total Energy", "Nuclear charges",
     "Total SCF Density", "Spin SCF Density",
     "Total MP2 Density", "Spin MP2 Density",
     "Total MP3 Density", "Spin MP3 Density",
     "Total CC Density", "Spin CC Density",
     "Total CI Density", "Spin CI Density",
     "Mulliken Charges", "ESP Charges", "NPA Charges",
     "Polarizability", "Dipole Moment", "Quadrupole Moment"}

\* water with a ghost atom in the middle
GeometryFields ==
    [l \in {"Atomic numbers", "Current cartesian coordinates", "Nuclear charges",
            "Mulliken Charges", "Total Energy", "Quadrupole Moment"} |->
        CASE l = "Atomic numbers" -> IntArray(<<8, 1, 1>>)
          [] l = "Current cartesian coordinates" -> FloatArray(Ramp(900, 9))
          [] l = "Nuclear charges" -> FloatArray(<<80, 0, 10>>)
          [] l = "Mulliken Charges" -> FloatArray(<<0 - 4, 2, 4>>)
          [] l = "Total Energy" -> FloatScalar(0 - 750)
          [] l = "Quadrupole Moment" -> FloatArray(<<1, 2, 3, 4, 5, 6>>)]

\* the basis-set fields of raw shells of the given types and primitive counts
BasisFields(types, nprims) ==
    LET labels == {"Shell types", "Shell to atom map", "Number of primitives per shell",
                   "Primitive exponents", "Contraction coefficients"}
                  \cup (IF \E i \in 1..Len(types) : types[i] = 0 - 1
                        THEN {"P(S=P) Contraction coefficients"} ELSE {})
    IN  [l \in labels |->
            CASE l = "Shell types" -> IntArray(types)
              [] l = "Shell to atom map" -> IntArray([i \in 1..Len(types) |-> ((i - 1) % 3) + 1])
              [] l = "Number of primitives per shell" -> IntArray(nprims)
              [] l = "Primitive exponents" -> FloatArray(Ramp(100, Sum(nprims)))
              [] l = "Contraction coefficients" -> FloatArray(Ramp(200, Sum(nprims)))
              [] l = "P(S=P) Contraction coefficients" -> FloatArray(Ramp(300, Sum(nprims)))]

\* the orbital fields of a file with nmo orbitals over nbasis functions
OrbitalFields(nbasis, nmo, nalpha, nbeta, uhf) ==
    LET labels == {"Number of basis functions", "Number of alpha electrons",
                   "Number of beta electrons", "Alpha MO coefficients",
                   "Alpha Orbital Energies"}
                  \cup (IF uhf THEN {"Beta MO coefficients", "Beta Orbital Energies"} ELSE {})
    IN  [l \in labels |->
            CASE l = "Number of basis functions" -> IntScalar(nbasis)
              [] l = "Number of alpha electrons" -> IntScalar(nalpha)
              [] l = "Number of beta electrons" -> IntScalar(nbeta)
              [] l = "Alpha MO coefficients" -> FloatArray(Ramp(400, nmo * nbasis))
              [] l = "Alpha Orbital Energies" -> FloatArray(Ramp(500, nmo))
              [] l = "Beta MO coefficients" -> FloatArray(Ramp(600, nmo * nbasis))
              [] l = "Beta Orbital Energies" -> FloatArray(Ramp(700, nmo))]

\* an optional scalar field
OptionalField(label, opt) ==
    IF opt = None THEN EmptyDict ELSE [l \in {label} |-> IntScalar(opt[1])]

\* the state after FCHKFile has read the fields of `fields`
Scanned(fields) ==
    /\ file = <<>>
    /\ hdr = 2
    /\ wantedArg = Some(LoadLabels)
    /\ pos = 0
    /\ field_labels = Some(LoadLabels \ DOMAIN fields)
    /\ store = fields
    /\ attrs = {"filename", "title", "command", "lot"}
    /\ status = "done"
    /\ result = None

\* the number of basis functions of a shell of the given type: 1, 3, 6, ..., 55
\* for 0..9, then 5, 7, ..., 19 for -2..-9, and 4 for an SP shell
BlockSize(type) ==
    IF type = 0 - 1 THEN 4
    ELSE IF type >= 0 THEN ((type + 1) * (type + 2)) \div 2
    ELSE 1 - 2 * type

RawShellTypes == PermutationTypes \cup {0 - 1}

PrimitiveCounts == {1, 2}

SeqsUpTo(S, n) == UNION {[1..k -> S] : k \in 1..n}

\* files that differ in their shells
InitBasis ==
    \E types \in SeqsUpTo(RawShellTypes, MaxShells) :
    \E nprims \in [1..Len(types) -> PrimitiveCounts] :
        Scanned(GeometryFields
                @@ BasisFields(types, nprims)
                @@ OptionalField("Number of independent functions", Some(1))
                @@ OrbitalFields(Sum([i \in 1..Len(types) |-> BlockSize(types[i])]),
                                 1, 1, 1, FALSE))

SpecBasis == InitBasis /\ [][Load]_vars

DensityLabels ==
    {TotalLabel(Methods[k]) : k \in 1..Len(Methods)}
    \cup {SpinLabel(Methods[k]) : k \in 1..Len(Methods)}

\* files that differ in their electron counts, beta orbitals and densities
InitOrb ==
    \E nalpha \in 0..MaxElectrons, nbeta \in 0..MaxElectrons, uhf \in BOOLEAN :
    \E present \in SUBSET DensityLabels :
        Scanned(GeometryFields
                @@ BasisFields(<<0, 0>>, <<1, 1>>)
                @@ OrbitalFields(2, 2, nalpha, nbeta, uhf)
                @@ [l \in present |-> FloatArray(Ramp(800, 3))])

SpecOrb == InitOrb /\ [][Load]_vars

OptionalCounts == {None} \cup {Some(n) : n \in 0..MaxFunctions}

\* files that differ in the two spellings of the independent-function count
\* and in the number nmo of orbitals they hold
InitIndep ==
    \E independant \in OptionalCounts, independent \in OptionalCounts :
    \E nbasis \in 1..(MaxFunctions + 1), nmo \in 0..(MaxFunctions + 1) :
    \E nalpha \in 1..2, nbeta \in 1..2, uhf \in BOOLEAN :
        Scanned(GeometryFields
                @@ BasisFields(<<0, 0>>, <<1, 1>>)
                @@ OptionalField("Number of independant functions", independant)
                @@ OptionalField("Number of independent functions", independent)
                @@ OrbitalFields(nbasis, nmo, nalpha, nbeta, uhf)
                @@ [l \in {"Total SCF Density"} |->
                       FloatArray(Ramp(800, (nbasis * (nbasis + 1)) \div 2))])

SpecIndep == InitIndep /\ [][Load]_vars

TriangleValues == {0, 15}

Flats == UNION {[1..k -> TriangleValues] : k \in 0..((MaxDim * (MaxDim + 1)) \div 2)}

\* files that differ in a triangular array, given as the polarizability, as
\* the SCF density of a file with n basis functions, or as both
InitTri ==
    \E flat \in Flats, polar \in BOOLEAN, n \in {None} \cup {Some(k) : k \in 0..MaxDim} :
        Scanned(GeometryFields
                @@ BasisFields(<<0>>, <<1>>)
                @@ OrbitalFields(IF n = None THEN 1 ELSE n[1],
                                 IF n = None THEN 1 ELSE n[1], 1, 1, FALSE)
                @@ [l \in (IF polar THEN {"Polarizability"} ELSE {})
                          \cup (IF n = None THEN {} ELSE {"Total SCF Density"}) |->
                       FloatArray(flat)])

SpecTri == InitTri /\ [][Load]_vars

----------------------------------------------------------------------------
(* What the file holds, read off the lines themselves (used to state the   *)
(* properties of the scanner, not by the scanner).                         *)

LineTokens(i) == file[i].head \o file[i].words

\* the tokens of lines i+1 .. i+k
RECURSIVE TokensAfter(_, _)
TokensAfter(i, k) == IF k = 0 THEN <<>> ELSE TokensAfter(i, k - 1) \o LineTokens(i + k)

TypeOf(i) == IF file[i].words[1] = "I" THEN "int" ELSE "float"

IsScalarField(i) ==
    /\ Len(file[i].words) = 2
    /\ file[i].words[1] \in {"I", "R"}
    /\ Convertible(TypeOf(i), file[i].words[2])

IsArrayHeader(i) ==
    /\ Len(file[i].words) = 3
    /\ file[i].words[1] \in {"I", "R"}
    /\ file[i].words[2] = "N="
    /\ file[i].words[3] \in IntTokens

DeclaredLength(i) == IntOf(file[i].words[3])

AllConvertible(datatype, toks) == \A j \in 1..Len(toks) : Convertible(datatype, toks[j])

ConvertAll(datatype, toks) == [j \in 1..Len(toks) |-> Convert(datatype, toks[j])]

\* the array header at line i is followed by k lines that hold exactly the
\* declared number of tokens, all of the declared type
FilledExactlyBy(i, k) ==
    /\ i + k <= Len(file)
    /\ Len(TokensAfter(i, k)) = DeclaredLength(i)
    /\ AllConvertible(TypeOf(i), TokensAfter(i, k))
    /\ k > 0 => LineTokens(i + k) # <<>>

IsArrayField(i) == IsArrayHeader(i) /\ \E k \in 0..(Len(file) - i) : FilledExactlyBy(i, k)

DataLines(i) == CHOOSE k \in 0..(Len(file) - i) : FilledExactlyBy(i, k)

IsField(i) == IsScalarField(i) \/ IsArrayField(i)

FieldValue(i) ==
    IF IsScalarField(i)
    THEN [dtype |-> TypeOf(i), shape |-> "scalar",
          data |-> <<Convert(TypeOf(i), file[i].words[2])>>]
    ELSE [dtype |-> TypeOf(i), shape |-> "array",
          data |-> ConvertAll(TypeOf(i), TokensAfter(i, DataLines(i)))]

\* the lines from i on are a sequence of well-formed I/R fields
RECURSIVE FieldsFrom(_)
FieldsFrom(i) ==
    IF i > Len(file) THEN TRUE
    ELSE IF IsScalarField(i) THEN FieldsFrom(i + 1)
    ELSE IF IsArrayField(i) THEN FieldsFrom(i + DataLines(i) + 1)
    ELSE FALSE

\* the header lines of the well-formed fields of a well-formed file
RECURSIVE FieldStarts(_)
FieldStarts(i) ==
    IF i > Len(file) THEN {}
    ELSE IF IsScalarField(i) THEN {i} \cup FieldStarts(i + 1)
    ELSE IF IsArrayField(i) THEN {i} \cup FieldStarts(i + DataLines(i) + 1)
    ELSE {}

WellFormedFile == hdr \in {2, 3} /\ FieldsFrom(1)

\* the well-formed fields of the file that carry label l
FieldsLabelled(l) == {i \in 1..Len(file) : file[i].label = l /\ IsField(i)}

SetMin(S) == CHOOSE x \in S : \A y \in S : x <= y

SetMax(S) == CHOOSE x \in S : \A y \in S : x >= y

Wanted == IF wantedArg = None THEN {} ELSE wantedArg[1]

----------------------------------------------------------------------------
(* C2.  Selective loading.  With a wanted-label set W: in every state of   *)
(* the scan the keys of the store are labels of W; a line whose label is   *)
(* not (or no longer) wanted, a continuation line of a skipped array       *)
(* included, adds no entry; and once the working set is empty the next     *)
(* read_field reads at most one line, stores nothing and ends the scan.    *)

C2_KeysWanted == wantedArg # None => DOMAIN store \subseteq Wanted

C2_UnwantedAddsNothing ==
    (/\ status = "scanning"
     /\ pos < Len(file)
     /\ field_labels # None
     /\ file[pos + 1].label \notin field_labels[1])
    => store' = store /\ pos' = pos + 1

C2_StopsWhenAllSeen ==
    (status = "scanning" /\ field_labels = Some({}))
    => status' = "done" /\ store' = store /\ pos' <= pos + 1

C2_SelectiveLoading ==
    /\ [] C2_KeysWanted
    /\ [][C2_UnwantedAddsNothing /\ C2_StopsWhenAllSeen]_vars

\* the scan of a file for A alone has stored A and stopped before the end
C2_Witness ==
    /\ status = "done"
    /\ wantedArg = Some({"A"})
    /\ "A" \in DOMAIN store
    /\ field_labels = Some({})
    /\ pos < Len(file)

----------------------------------------------------------------------------
(* C8.  Label collisions.  As claimed: when a wanted label occurs in       *)
(* several well-formed fields, after the scan the store maps it to the     *)
(* value of its last occurrence.                                           *)

C8_LastWins ==
    \A l \in Wanted :
        (/\ status = "done"
         /\ Cardinality(FieldsLabelled(l)) >= 2
         /\ \A i \in 1..Len(file) : file[i].label = l => i \in FieldsLabelled(l))
        => l \in DOMAIN store /\ store[l] = FieldValue(SetMax(FieldsLabelled(l)))

(* C8, amended.  When a wanted label occurs in several well-formed fields  *)
(* and the first line carrying the label is one of them, after a           *)
(* successful scan the store maps the label to the value of its first      *)
(* occurrence: the label leaves the working set there and every later      *)
(* occurrence is skipped.                                                  *)

FirstLineLabelled(l) == SetMin({i \in 1..Len(file) : file[i].label = l})

C8_FirstWins ==
    \A l \in Wanted :
        (/\ status = "done"
         /\ Cardinality(FieldsLabelled(l)) >= 2
         /\ FirstLineLabelled(l) \in FieldsLabelled(l))
        => l \in DOMAIN store /\ store[l] = FieldValue(FirstLineLabelled(l))

\* a finished scan of a file with two different well-formed A fields
C8_Witness ==
    /\ status = "done"
    /\ "A" \in Wanted
    /\ Cardinality(FieldsLabelled("A")) >= 2
    /\ FirstLineLabelled("A") \in FieldsLabelled("A")
    /\ FieldValue(SetMax(FieldsLabelled("A"))) # FieldValue(SetMin(FieldsLabelled("A")))
    /\ "A" \in DOMAIN store
    /\ field_labels = Some({"B"})
    /\ pos >= SetMax(FieldsLabelled("A"))

----------------------------------------------------------------------------
(* C9.  The wanted-label set is optional.  As claimed: an FCHKFile         *)
(* constructed with field_labels = None has no filter, its parse of a      *)
(* well-formed file succeeds, and every well-formed I/R field of the file  *)
(* is in the store when the scan is done.                                  *)

C9_NoFilterReadsAll ==
    (wantedArg = None /\ WellFormedFile /\ status # "new")
    => /\ status \in {"scanning", "done"}
       /\ field_labels = None
       /\ status = "done" => \A i \in FieldStarts(1) : file[i].label \in DOMAIN store

----------------------------------------------------------------------------
(* C10.  Array fill.  As claimed: when read_field takes an array header    *)
(* 'TYPE N= L' and the following lines, up to the one that holds the L-th  *)
(* token, hold tokens that all convert to TYPE, however they are spread    *)
(* over the lines, the call stores an array of the first L values under    *)
(* the label and leaves the stream after the last line it had to read;     *)
(* when the stream ends before L tokens were read the parse fails and      *)
(* nothing is stored for the label.                                        *)

\* the least number of lines after line i that hold n tokens; -1 if none do
LinesFor(i, n) ==
    LET ks == {k \in 0..(Len(file) - i) : Len(TokensAfter(i, k)) >= n}
    IN  IF ks = {} THEN 0 - 1 ELSE SetMin(ks)

TakesArrayHeader ==
    /\ status = "scanning"
    /\ pos < Len(file)
    /\ Filter(field_labels, file[pos + 1].label) = "take"
    /\ IsArrayHeader(pos + 1)

C10_Step ==
    TakesArrayHeader =>
        LET i == pos + 1
            L == DeclaredLength(i)
            k == LinesFor(i, L)
            label == file[i].label
        IN  IF k >= 0
            THEN AllConvertible(TypeOf(i), TokensAfter(i, k))
                 => /\ status' = "scanning"
                    /\ label \in DOMAIN store'
                    /\ store'[label] =
                         [dtype |-> TypeOf(i), shape |-> "array",
                          data |-> ConvertAll(TypeOf(i), SubSeq(TokensAfter(i, k), 1, L))]
                    /\ pos' = i + k
            ELSE AllConvertible(TypeOf(i), TokensAfter(i, Len(file) - i))
                 => /\ status' = "IOError"
                    /\ store' = store

C10_ArrayFill == [][C10_Step]_vars

\* the same with the tokens ending where a line ends: this the code does
C10_StepExact ==
    (TakesArrayHeader /\ IsArrayField(pos + 1)) =>
        LET i == pos + 1
            label == file[i].label
        IN  /\ status' = "scanning"
            /\ label \in DOMAIN store'
            /\ store'[label] = FieldValue(i)
            /\ pos' = i + DataLines(i)

C10_ArrayFillExact == [][C10_StepExact]_vars

----------------------------------------------------------------------------
(* What load returned *)

Loaded == result # None /\ result[1].err = ""

Out == result[1].out

ValidElectrons ==
    LET nalpha == store["Number of alpha electrons"].data[1]
        nbeta == store["Number of beta electrons"].data[1]
    IN  nalpha >= 0 /\ nbeta >= 0 /\ nalpha + nbeta > 0

BetaKeys == {"orb_beta", "orb_beta_coeffs", "orb_beta_energies", "orb_beta_occs"}

Ones(occs) == Cardinality({j \in 1..Len(occs) : occs[j] = 10})

----------------------------------------------------------------------------
(* C1.  The three cases of the beta orbitals.  As claimed: with valid      *)
(* electron counts load returns a result, and (a) if the store has 'Beta   *)
(* Orbital Energies' the result has a beta entry built from the beta       *)
(* fields, its first n_beta occupations 1.0 and the rest 0.0; (b)          *)
(* otherwise, if n_alpha # n_beta, it has a beta entry with the alpha      *)
(* coefficients and energies and n_beta ones (n_beta <= n_independent),    *)
(* and no 'dm_full_scf'; (c) otherwise it has no beta key.                 *)

C1_BetaCases ==
    (result # None /\ ValidElectrons) =>
        /\ Loaded
        /\ LET nalpha == store["Number of alpha electrons"].data[1]
               nbeta == store["Number of beta electrons"].data[1]
               nbasis == store["Number of basis functions"].data[1]
               n == Out["orb_alpha"][2][1]
           IN  IF Has(store, "Beta Orbital Energies")
               THEN /\ BetaKeys \subseteq DOMAIN Out
                    /\ Out["orb_beta_coeffs"] =
                         Transpose(Reshape(store["Beta MO coefficients"].data, n, nbasis),
                                   n, nbasis)
                    /\ Out["orb_beta_energies"] = store["Beta Orbital Energies"].data
                    /\ Out["orb_beta_occs"] = [j \in 1..n |-> IF j <= nbeta THEN 10 ELSE 0]
               ELSE IF nalpha # nbeta
               THEN /\ BetaKeys \subseteq DOMAIN Out
                    /\ Out["orb_beta_coeffs"] = Out["orb_alpha_coeffs"]
                    /\ Out["orb_beta_energies"] = Out["orb_alpha_energies"]
                    /\ Len(Out["orb_beta_occs"]) = n
                    /\ nbeta <= n => Ones(Out["orb_beta_occs"]) = nbeta
                    /\ "dm_full_scf" \notin DOMAIN Out
               ELSE BetaKeys \cap DOMAIN Out = {}

\* the same for the files in which the pop of line 358 finds its key
C1_BetaCasesWithDensity ==
    (Has(store, "Total SCF Density") \/ BetaCase(store) # "ROHF") => C1_BetaCases

----------------------------------------------------------------------------
(* C6.  Absent density fields.  As claimed: whatever density fields are    *)
(* present or absent, in the closed-shell, unrestricted and restricted     *)
(* open-shell cases alike, load returns a result, and the result has no    *)
(* 'dm_full_<method>' ('dm_spin_<method>') key for an absent 'Total        *)
(* <method> Density' ('Spin <method> Density').                            *)

C6_AbsentDensityIsNoError ==
    (result # None /\ ValidElectrons) =>
        /\ Loaded
        /\ \A k \in 1..Len(Methods) :
            /\ ~Has(store, TotalLabel(Methods[k])) => FullKey(Methods[k]) \notin DOMAIN Out
            /\ ~Has(store, SpinLabel(Methods[k])) => SpinKey(Methods[k]) \notin DOMAIN Out

----------------------------------------------------------------------------
(* C7.  The independent-function count.  As claimed (for files whose       *)
(* counts are not zero): load uses 'Number of independent functions' when  *)
(* present, else 'Number of independant functions' when present, else the  *)
(* number of basis functions.                                              *)

UsedCount == Out["orb_alpha"][2][1]

CountsNotZero ==
    \A l \in {"Number of independent functions", "Number of independant functions"} :
        Has(store, l) => store[l].data[1] # 0

C7_PrefersIndependent ==
    (Loaded /\ CountsNotZero) =>
        /\ UsedCount =
             IF Has(store, "Number of independent functions")
             THEN store["Number of independent functions"].data[1]
             ELSE IF Has(store, "Number of independant functions")
             THEN store["Number of independant functions"].data[1]
             ELSE store["Number of basis functions"].data[1]
        /\ Len(Out["orb_alpha_occs"]) = UsedCount

(* C7, amended.  load uses 'Number of independant functions' when that     *)
(* field is present and not zero; otherwise 'Number of independent         *)
(* functions' when that field is present; otherwise the number of basis    *)
(* functions.  With both spellings present and different, the              *)
(* 'independant' value is used unless it is zero.                          *)

C7_PrefersIndependant ==
    Loaded =>
        /\ UsedCount =
             IF /\ Has(store, "Number of independant functions")
                /\ store["Number of independant functions"].data[1] # 0
             THEN store["Number of independant functions"].data[1]
             ELSE IF Has(store, "Number of independent functions")
             THEN store["Number of independent functions"].data[1]
             ELSE store["Number of basis functions"].data[1]
        /\ Len(Out["orb_alpha_occs"]) = UsedCount
        /\ \A row \in 1..Len(Out["orb_alpha_coeffs"]) :
              Len(Out["orb_alpha_coeffs"][row]) = UsedCount

\* load has returned for a file with both spellings, of different values
C7_Witness ==
    /\ Loaded
    /\ Has(store, "Number of independant functions")
    /\ Has(store, "Number of independent functions")
    /\ store["Number of independant functions"].data[1] = 1
    /\ store["Number of independent functions"].data[1] = 2
    /\ Len(Out["orb_alpha_occs"]) = 1

----------------------------------------------------------------------------
(* C3.  The permutation.  For shells of types in -9..-2 and 0..9 the       *)
(* permutation has as many entries as the block sizes of the emitted       *)
(* shells add up to, every index below that number occurs in it exactly    *)
(* once, and the block of each shell holds indices of that shell's own     *)
(* range only.                                                             *)

\* the sum of the first m elements
PrefixSum(a, m) == Sum(SubSeq(a, 1, m))

C3_PermutationBijection ==
    result # None =>
        /\ Loaded
        /\ LET types == Out["obasis"].shell_types
               sizes == [s \in 1..Len(types) |-> BlockSize(types[s])]
               N == Sum(sizes)
               perm == Out["permutation"]
           IN  /\ \A s \in 1..Len(types) : types[s] \in PermutationTypes
               /\ Len(perm) = N
               /\ \A x \in 0..(N - 1) : Cardinality({j \in 1..N : perm[j] = x}) = 1
               /\ \A s \in 1..Len(types) :
                    \A j \in (PrefixSum(sizes, s - 1) + 1)..PrefixSum(sizes, s) :
                        /\ PrefixSum(sizes, s - 1) <= perm[j]
                        /\ perm[j] < PrefixSum(sizes, s)

\* a permutation of two shells, the second one a cartesian F shell
C3_Witness ==
    /\ Loaded
    /\ Out["obasis"].shell_types = <<0 - 2, 3>>
    /\ Len(Out["permutation"]) = 15
    /\ Out["permutation"][15] = 7

----------------------------------------------------------------------------
(* C5.  SP shells.  A raw shell of type -1 with k primitives at offset o   *)
(* becomes two consecutive shells of types 0 and 1 on the same atom, each  *)
(* with k primitives and the exponents [o, o+k), the first with that slice *)
(* of 'Contraction coefficients' and the second with that slice of 'P(S=P) *)
(* Contraction coefficients'; any other raw shell becomes one shell of its *)
(* type; the offset advances by k per raw shell; no emitted shell has type *)
(* -1 and there are as many emitted shells as raw shells plus SP shells.   *)

RawTypes == store["Shell types"].data

RawPrimitives == store["Number of primitives per shell"].data

\* the number of SP shells among the first m raw shells
SPBefore(m) == Cardinality({j \in 1..m : RawTypes[j] = 0 - 1})

\* the primitives of emitted shell e in a concatenated array
Segment(array, e) ==
    SubSeq(array, PrefixSum(Out["obasis"].nprims, e - 1) + 1,
                  PrefixSum(Out["obasis"].nprims, e))

C5_SPSplit ==
    result # None =>
        /\ Loaded
        /\ LET ob == Out["obasis"]
           IN  /\ Len(ob.shell_types) = Len(RawTypes) + SPBefore(Len(RawTypes))
               /\ Len(ob.shell_map) = Len(ob.shell_types)
               /\ Len(ob.nprims) = Len(ob.shell_types)
               /\ \A e \in 1..Len(ob.shell_types) : ob.shell_types[e] # 0 - 1
               /\ \A i \in 1..Len(RawTypes) :
                    LET e == i + SPBefore(i - 1)
                        k == RawPrimitives[i]
                        o == PrefixSum(RawPrimitives, i - 1)
                        atom == store["Shell to atom map"].data[i] - 1
                        exps == SubSeq(store["Primitive exponents"].data, o + 1, o + k)
                        cc1 == SubSeq(store["Contraction coefficients"].data, o + 1, o + k)
                    IN  /\ ob.shell_map[e] = atom
                        /\ ob.nprims[e] = k
                        /\ Segment(ob.alphas, e) = exps
                        /\ Segment(ob.con_coeffs, e) = cc1
                        /\ IF RawTypes[i] = 0 - 1
                           THEN /\ ob.shell_types[e] = 0
                                /\ ob.shell_types[e + 1] = 1
                                /\ ob.shell_map[e + 1] = atom
                                /\ ob.nprims[e + 1] = k
                                /\ Segment(ob.alphas, e + 1) = exps
                                /\ Segment(ob.con_coeffs, e + 1) =
                                     SubSeq(store["P(S=P) Contraction coefficients"].data,
                                            o + 1, o + k)
                           ELSE ob.shell_types[e] = RawTypes[i]

\* a D shell of two primitives followed by an SP shell of two primitives
C5_Witness ==
    /\ Loaded
    /\ RawTypes = <<2, 0 - 1>>
    /\ RawPrimitives = <<2, 2>>
    /\ Out["obasis"].shell_types = <<2, 0, 1>>
    /\ Out["obasis"].con_coeffs = <<201, 202, 203, 204, 303, 304>>

----------------------------------------------------------------------------
(* C4.  Triangular expansion.  A flat array of length n(n+1)/2 expands,    *)
(* by _triangle_to_dense (n derived from the length) and by load_dm (n the *)
(* number of basis functions), to an n x n symmetric matrix whose lower    *)
(* triangle, packed row by row, is the flat array again -- so the packed   *)
(* lower triangle of a symmetric matrix M expands to M, a symmetric matrix *)
(* being determined by its lower triangle.  Whatever the flat array, a     *)
(* matrix that the expansion yields is symmetric.                          *)

IsSquare(m, n) == Len(m) = n /\ \A i \in 1..n : Len(m[i]) = n

IsSymmetric(m) == \A i \in 1..Len(m) : \A j \in 1..Len(m) : m[i][j] = m[j][i]

\* the lower triangle of m, row by row
Pack(m) == Concat([i \in 1..Len(m) |-> SubSeq(m[i], 1, i)])

IsExpansionOf(m, flat, n) == IsSquare(m, n) /\ IsSymmetric(m) /\ Pack(m) = flat

C4_TriangleRoundTrip ==
    result # None =>
        LET hasPolar == Has(store, "Polarizability")
            hasDensity == Has(store, "Total SCF Density")
            nbasis == store["Number of basis functions"].data[1]
            densityFits ==
                hasDensity =>
                    2 * Len(store["Total SCF Density"].data) = nbasis * (nbasis + 1)
        IN  /\ (hasDensity /\ densityFits) =>
                /\ Loaded
                /\ IsExpansionOf(Out["dm_full_scf"], store["Total SCF Density"].data, nbasis)
            /\ (hasPolar /\ densityFits) =>
                \A n \in 0..MaxDim :
                    2 * Len(store["Polarizability"].data) = n * (n + 1) =>
                        /\ Loaded
                        /\ IsExpansionOf(Out["polar"], store["Polarizability"].data, n)
            /\ Loaded =>
                /\ hasPolar => "polar" \in DOMAIN Out /\ IsSymmetric(Out["polar"])
                /\ hasDensity =>
                     "dm_full_scf" \in DOMAIN Out /\ IsSymmetric(Out["dm_full_scf"])

\* a 3 x 3 matrix expanded both ways, its last row not constant
C4_Witness ==
    /\ Loaded
    /\ "polar" \in DOMAIN Out
    /\ "dm_full_scf" \in DOMAIN Out
    /\ Len(Out["polar"]) = 3
    /\ Out["polar"][3] = <<15, 0, 15>>
    /\ Out["polar"][1] = <<0, 0, 15>>
    /\ Out["dm_full_scf"] = Out["polar"]

====
